---- MODULE Spec2Model ----
(***************************************************************************)
(* Model of the Banksformer bootstrap scripts:                             *)
(*   train_seed.py  : set_seed(seed)                                       *)
(*   train_colab.py : load_config(path), main(config_path)                 *)
(* main is a straight-line procedure; pc is its position.  Everything the  *)
(* code reads from its environment (the file system, the YAML document,    *)
(* which modules import, what the framework calls do) is chosen            *)
(* nondeterministically at the step that reads it.                         *)
(***************************************************************************)
EXTENDS Integers, Sequences, FiniteSets, TLC

\* ------------------------------------------------------------------ bounds
\* integer seeds range over -MaxSeed .. MaxSeed
MaxSeed == 2
\* draws taken from one generator between two seedings
MaxDraws == 2
\* set_seed calls a library client makes
MaxCalls == 3

\* ------------------------------------------------------- program constants
ExitOK == 0
ExitUncaught == 1
ExitNotFound == 2
ExitNoTrain == 3
\* numpy's legacy seeding accepts 0 .. 2^32 - 1; the upper end lies beyond
\* every seed of this model, so only the lower end is stated
NpSeedMin == 0

VARIABLES
    pc,          \* position of main / "lib" when set_seed is used as a library
    pathKind,    \* what config_path names: "missing", "file", "dir"
    config,      \* the parsed Configuration
    log,         \* messages emitted, in order: <<level, message>>
    exitCode,    \* {} while the process runs, {code} once it ended
    fs,          \* directories that exist
    created,     \* directories this run created
    torch,       \* train_seed.torch is not None
    helperOK,    \* "from train_seed import set_seed" succeeded in train_colab
    rng,         \* state of the RNG subsystems
    call,        \* the latest set_seed call: argument, sub-steps attempted,
                 \* raised, and fresh = no draw was taken since
    seedCalls,   \* number of set_seed calls made
    afterCall,   \* per seed, the RNG states seen after the first call with it
    ckpt_dir,
    logs_dir,
    stepA,       \* outcome of "from train import train"
    stepB,       \* outcome of "import train as _train_mod; getattr(...)"
    train,       \* the local name train at dispatch
    invocations, \* arguments of the calls train(...) made
    trainResult  \* how the training routine ended

vars == <<pc, pathKind, config, log, exitCode, fs, created, torch, helperOK, rng,
          call, seedCalls, afterCall, ckpt_dir, logs_dir, stepA, stepB, train,
          invocations, trainResult>>

\* ------------------------------------------------------------ value spaces
SeedInts == (0 - MaxSeed) .. MaxSeed

Absent == "<absent>"
DirNames == {"A", "B"}
AllDirs == DirNames \cup {"checkpoints", "logs"}

\* values the YAML key "seed" can hold: none (key missing or null), an int,
\* a float given in tenths, a string of digits, any other string
SeedValues ==
    {[kind |-> "none", val |-> 0]}
    \cup {[kind |-> "int", val |-> n] : n \in SeedInts}
    \cup {[kind |-> "float", val |-> t] : t \in {15, -15}}
    \cup {[kind |-> "digits", val |-> 1]}
    \cup {[kind |-> "text", val |-> 0]}

\* values of the YAML key "paths": key missing, null, or a mapping whose
\* keys checkpoints / logs are each missing or a directory name
PathsValues ==
    {[kind |-> "absent", checkpoints |-> Absent, logs |-> Absent],
     [kind |-> "null", checkpoints |-> Absent, logs |-> Absent]}
    \cup {[kind |-> "map", checkpoints |-> c, logs |-> l] :
             c \in DirNames \cup {Absent}, l \in DirNames \cup {Absent}}

Configs ==
    {[kind |-> "mapping", seed |-> s, paths |-> p, resume |-> r] :
        s \in SeedValues, p \in PathsValues, r \in BOOLEAN}

NoConfig ==
    [kind |-> "unparsed", seed |-> [kind |-> "none", val |-> 0],
     paths |-> [kind |-> "absent", checkpoints |-> Absent, logs |-> Absent],
     resume |-> FALSE]

\* a generator: seeded=FALSE is a state that came from OS entropy `key`
Unseeded(e) == [seeded |-> FALSE, key |-> e, pos |-> 0]
Seeded(k) == [seeded |-> TRUE, key |-> k, pos |-> 0]

RngInit ==
    [py |-> Unseeded(0), np |-> Unseeded(0), torchCpu |-> {}, torchGpu |-> {},
     cudnnDeterministic |-> FALSE, cudnnBenchmark |-> FALSE]

NoCall ==
    [made |-> FALSE, seed |-> 0, raised |-> FALSE, attempted |-> {},
     fallback |-> FALSE, fresh |-> FALSE]

TorchFaults == {"none", "manual_seed", "manual_seed_all", "cudnn"}

Abs(n) == IF n < 0 THEN 0 - n ELSE n


\* ------------------------------------------------- train_seed.py: set_seed
\* random.seed(seed): an int seeds the generator with its absolute value
random_seed(st, seed) == [st EXCEPT !.py = Seeded(Abs(seed))]

\* np.random.seed(seed) raises ValueError unless 0 <= seed <= 2^32 - 1
np_seed_accepts(seed) == seed >= NpSeedMin

np_random_seed(st, seed) == [st EXCEPT !.np = Seeded(seed)]

\* the try block of set_seed: the first failing call ends the block and the
\* except clause swallows the failure; `fault` names the failing call
torch_block(st, seed, fault) ==
    IF fault = "manual_seed"
    THEN [st |-> st, attempted |-> {"manual_seed"}]
    ELSE LET s1 == [st EXCEPT !.torchCpu = {seed}] IN
         IF fault = "manual_seed_all"
         THEN [st |-> s1, attempted |-> {"manual_seed", "manual_seed_all"}]
         ELSE LET s2 == [s1 EXCEPT !.torchGpu = {seed}] IN
              IF fault = "cudnn"
              THEN [st |-> s2,
                    attempted |-> {"manual_seed", "manual_seed_all", "cudnn"}]
              ELSE [st |-> [s2 EXCEPT !.cudnnDeterministic = TRUE,
                                      !.cudnnBenchmark = FALSE],
                    attempted |-> {"manual_seed", "manual_seed_all", "cudnn"}]

\* set_seed(seed) from RNG state st: the state it leaves, the sub-steps it
\* attempted, and whether it raised
set_seed(st, seed, torchPresent, fault) ==
    LET a == random_seed(st, seed) IN
    IF ~np_seed_accepts(seed)
    THEN [st |-> a, attempted |-> {"random", "numpy"}, raised |-> TRUE,
          exc |-> "ValueError"]
    ELSE LET b == np_random_seed(a, seed) IN
         IF torchPresent
         THEN LET t == torch_block(b, seed, fault) IN
              [st |-> t.st, attempted |-> {"random", "numpy"} \cup t.attempted,
               raised |-> FALSE, exc |-> "none"]
         ELSE [st |-> b, attempted |-> {"random", "numpy"}, raised |-> FALSE,
               exc |-> "none"]

\* the stand-in train_colab defines when train_seed does not import: it
\* prints and seeds nothing
set_seed_fallback(st, seed) ==
    [st |-> st, attempted |-> {}, raised |-> FALSE, exc |-> "none"]

\* the sub-steps set_seed has to attempt, by whether the framework is there
SubSteps(torchPresent) ==
    IF torchPresent
    THEN {"random", "numpy", "manual_seed", "manual_seed_all", "cudnn"}
    ELSE {"random", "numpy"}

FaultsOf(torchPresent) == IF torchPresent THEN TorchFaults ELSE {"none"}

\* bookkeeping of one set_seed call with result r
RecordCall(seed, r, isFallback) ==
    /\ rng' = r.st
    /\ call' = [made |-> TRUE, seed |-> seed, raised |-> r.raised,
                attempted |-> r.attempted, fallback |-> isFallback,
                fresh |-> TRUE]
    /\ seedCalls' = seedCalls + 1
    /\ afterCall' = [afterCall EXCEPT ![seed] =
                        IF @ = {} THEN {<<r.st.py, r.st.np>>} ELSE @]


\* ------------------------------------------------------ train_colab.py: main
Emit(level, msg) == log' = Append(log, <<level, msg>>)

\* sys.exit(code)
Exit(code) == pc' = "exited" /\ exitCode' = {code}

\* an exception nobody catches: the interpreter prints the traceback and the
\* process ends with status 1
Uncaught(exc) ==
    /\ Emit("traceback", exc)
    /\ Exit(ExitUncaught)

\* Path(config_path).exists(): true of files and of directories
PathExists_always(kind) == TRUE

PathExists(kind) == kind # "missing"

\* int(seed) as Python converts the values YAML can yield
int_of(v) ==
    CASE v.kind = "int" -> [ok |-> TRUE, val |-> v.val, exc |-> "none"]
      [] v.kind = "float" ->
            [ok |-> TRUE, exc |-> "none",
             val |-> IF v.val >= 0 THEN v.val \div 10
                     ELSE 0 - ((0 - v.val) \div 10)]
      [] v.kind = "digits" -> [ok |-> TRUE, val |-> v.val, exc |-> "none"]
      [] v.kind = "text" -> [ok |-> FALSE, val |-> 0, exc |-> "ValueError"]
      [] OTHER -> [ok |-> FALSE, val |-> 0, exc |-> "TypeError"]

\* "if seed is not None"
SeedProvided_always(c) == TRUE

SeedProvided(c) == c.seed.kind # "none"

\* "except Exception" around the seeding step
SeedGuardCatches_import(exc) == exc = "ImportError"

SeedGuardCatches(exc) ==
    exc \in {"ValueError", "TypeError", "OverflowError", "ImportError",
             "RuntimeError", "AttributeError", "OSError"}

\* dict.get(key, default) on a key that is missing or holds a name
Get(v, default) == IF v = Absent THEN default ELSE v

\* os.makedirs(d, exist_ok=True) when it succeeds
makedirs_forgotten(dirs, d) == dirs

makedirs(dirs, d) == dirs \cup {d}

\* lines 37-41
main_locate ==
    /\ pc = "locate"
    /\ IF ~PathExists(pathKind)
       THEN /\ Emit("error", "Config file not found")
            /\ Exit(ExitNotFound)
       ELSE /\ pc' = "parse"
            /\ UNCHANGED <<log, exitCode>>
    /\ UNCHANGED <<pathKind, config, fs, created, torch, helperOK, rng, call,
                   seedCalls, afterCall, ckpt_dir, logs_dir, stepA, stepB, train,
                   invocations, trainResult>>

\* line 43 with load_config, lines 31-33: open() fails on a missing path or a
\* directory, yaml.safe_load raises on a malformed document, and a document
\* that is not a mapping is returned as it is
load_config ==
    /\ pc = "parse"
    /\ IF pathKind # "file"
       THEN /\ Uncaught(IF pathKind = "dir" THEN "IsADirectoryError"
                        ELSE "FileNotFoundError")
            /\ UNCHANGED config
       ELSE \/ /\ Uncaught("YAMLError")
               /\ UNCHANGED config
            \/ /\ \E doc \in Configs \cup {[NoConfig EXCEPT !.kind = "scalar"]} :
                     config' = doc
               /\ pc' = "seed"
               /\ UNCHANGED <<log, exitCode>>
    /\ UNCHANGED <<pathKind, fs, created, torch, helperOK, rng, call, seedCalls,
                   afterCall, ckpt_dir, logs_dir, stepA, stepB, train,
                   invocations, trainResult>>

\* what the seeding step does once an exception exc reached its except clause
SeedFailed(exc) ==
    IF SeedGuardCatches(exc)
    THEN /\ Emit("warning", "Failed to set seed")
         /\ pc' = "paths"
         /\ UNCHANGED exitCode
    ELSE Uncaught(exc)

\* lines 45-52
main_seed ==
    /\ pc = "seed"
    /\ IF config.kind # "mapping"
       THEN /\ Uncaught("AttributeError")
            /\ UNCHANGED <<rng, call, seedCalls, afterCall>>
       ELSE IF ~SeedProvided(config)
       THEN /\ pc' = "paths"
            /\ UNCHANGED <<log, exitCode, rng, call, seedCalls, afterCall>>
       ELSE LET conv == int_of(config.seed) IN
            IF ~conv.ok
            THEN /\ SeedFailed(conv.exc)
                 /\ UNCHANGED <<rng, call, seedCalls, afterCall>>
            ELSE \E fault \in FaultsOf(torch) :
                    LET r == IF helperOK
                             THEN set_seed(rng, conv.val, torch, fault)
                             ELSE set_seed_fallback(rng, conv.val)
                    IN  /\ RecordCall(conv.val, r, ~helperOK)
                        /\ IF r.raised
                           THEN SeedFailed(r.exc)
                           ELSE /\ Emit("info", "Set deterministic seed")
                                /\ pc' = "paths"
                                /\ UNCHANGED exitCode
    /\ UNCHANGED <<pathKind, config, fs, created, torch, helperOK, ckpt_dir,
                   logs_dir, stepA, stepB, train, invocations, trainResult>>

\* lines 55-57
main_paths ==
    /\ pc = "paths"
    /\ IF config.paths.kind = "null"
       THEN /\ Uncaught("AttributeError")
            /\ UNCHANGED <<ckpt_dir, logs_dir>>
       ELSE /\ ckpt_dir' = Get(config.paths.checkpoints, "checkpoints")
            /\ logs_dir' = Get(config.paths.logs, "logs")
            /\ pc' = "mk_ckpt"
            /\ UNCHANGED <<log, exitCode>>
    /\ UNCHANGED <<pathKind, config, fs, created, torch, helperOK, rng, call,
                   seedCalls, afterCall, stepA, stepB, train, invocations,
                   trainResult>>

\* os.makedirs(d, exist_ok=True) then continue at `next`: nothing to do for a
\* directory that exists; otherwise it is created, or the call raises OSError
\* (no permission, a regular file in the way)
EnsureDir(d, next) ==
    \/ /\ d \in fs
       /\ pc' = next
       /\ UNCHANGED <<fs, created, log, exitCode>>
    \/ /\ d \notin fs
       /\ fs' = makedirs(fs, d)
       /\ created' = created \cup {d}
       /\ pc' = next
       /\ UNCHANGED <<log, exitCode>>
    \/ /\ d \notin fs
       /\ Uncaught("OSError")
       /\ UNCHANGED <<fs, created>>

\* line 59
main_mk_ckpt ==
    /\ pc = "mk_ckpt"
    /\ EnsureDir(ckpt_dir, "mk_logs")
    /\ UNCHANGED <<pathKind, config, torch, helperOK, rng, call, seedCalls,
                   afterCall, ckpt_dir, logs_dir, stepA, stepB, train,
                   invocations, trainResult>>

\* line 60
main_mk_logs ==
    /\ pc = "mk_logs"
    /\ EnsureDir(logs_dir, "resume")
    /\ UNCHANGED <<pathKind, config, torch, helperOK, rng, call, seedCalls,
                   afterCall, ckpt_dir, logs_dir, stepA, stepB, train,
                   invocations, trainResult>>

\* lines 63-65
main_resume ==
    /\ pc = "resume"
    /\ IF config.resume
       THEN Emit("info", "Resume enabled")
       ELSE UNCHANGED log
    /\ pc' = "resolve_a"
    /\ UNCHANGED <<pathKind, config, exitCode, fs, created, torch, helperOK, rng,
                   call, seedCalls, afterCall, ckpt_dir, logs_dir, stepA, stepB,
                   train, invocations, trainResult>>


\* what an import of the training entry point can yield: the import fails,
\* or the name train is bound to a function, to an object that cannot be
\* called, or to None
ImportOutcomes == {"ImportError", "callable", "noncallable", "none"}

\* lines 69-71: from train import train
main_resolve_a ==
    /\ pc = "resolve_a"
    /\ \E o \in ImportOutcomes :
          /\ stepA' = o
          /\ IF o = "ImportError"
             THEN /\ pc' = "resolve_b"
                  /\ UNCHANGED train
             ELSE /\ train' = o
                  /\ pc' = "dispatch"
    /\ UNCHANGED <<pathKind, config, log, exitCode, fs, created, torch, helperOK,
                   rng, call, seedCalls, afterCall, ckpt_dir, logs_dir, stepB,
                   invocations, trainResult>>

\* lines 72-77 without the inner except clause: the failure leaves main
main_resolve_b_unguarded ==
    /\ pc = "resolve_b"
    /\ \E o \in ImportOutcomes :
          /\ stepB' = o
          /\ IF o = "ImportError"
             THEN /\ Uncaught("ImportError")
                  /\ UNCHANGED train
             ELSE /\ train' = o
                  /\ pc' = "dispatch"
                  /\ UNCHANGED <<log, exitCode>>
    /\ UNCHANGED <<pathKind, config, fs, created, torch, helperOK, rng, call,
                   seedCalls, afterCall, ckpt_dir, logs_dir, stepA, invocations,
                   trainResult>>

\* lines 72-77: import train as _train_mod; train = getattr(_train_mod,
\* "train", None); a failing import binds train to None
main_resolve_b ==
    /\ pc = "resolve_b"
    /\ \E o \in ImportOutcomes :
          /\ stepB' = o
          /\ train' = IF o = "ImportError" THEN "none" ELSE o
    /\ pc' = "dispatch"
    /\ UNCHANGED <<pathKind, config, log, exitCode, fs, created, torch, helperOK,
                   rng, call, seedCalls, afterCall, ckpt_dir, logs_dir, stepA,
                   invocations, trainResult>>

\* lines 79-88: calling an object that is not callable raises TypeError
main_dispatch ==
    /\ pc = "dispatch"
    /\ IF train = "none"
       THEN /\ Emit("error", "Could not import train")
            /\ Exit(ExitNoTrain)
            /\ UNCHANGED invocations
       ELSE IF train = "callable"
       THEN /\ Emit("info", "Starting training")
            /\ invocations' = Append(invocations, config)
            /\ pc' = "training"
            /\ UNCHANGED exitCode
       ELSE /\ log' = log \o <<<<"info", "Starting training">>,
                               <<"traceback", "TypeError">>>>
            /\ Exit(ExitUncaught)
            /\ UNCHANGED invocations
    /\ UNCHANGED <<pathKind, config, fs, created, torch, helperOK, rng, call,
                   seedCalls, afterCall, ckpt_dir, logs_dir, stepA, stepB, train,
                   trainResult>>

\* what the external routine can hand back
TrainReturns == {"None", "0", "1"}

\* lines 88 and 91-93: train returns, main returns, the script ends
train_returns ==
    /\ pc = "training"
    /\ \E v \in TrainReturns : trainResult' = v
    /\ Exit(ExitOK)
    /\ UNCHANGED <<pathKind, config, log, fs, created, torch, helperOK, rng,
                   call, seedCalls, afterCall, ckpt_dir, logs_dir, stepA, stepB,
                   train, invocations>>

\* line 88: train raises and nothing catches it
train_raises ==
    /\ pc = "training"
    /\ trainResult' = "raised"
    /\ Uncaught("Exception")
    /\ UNCHANGED <<pathKind, config, fs, created, torch, helperOK, rng, call,
                   seedCalls, afterCall, ckpt_dir, logs_dir, stepA, stepB, train,
                   invocations>>

\* ------------------------------------------------------- the script's runs
\* the state main starts in: the modules are loaded (lines 12-28 of
\* train_colab.py, 12-17 of train_seed.py), nothing is seeded
Init ==
    /\ pc = "locate"
    /\ pathKind \in {"missing", "file", "dir"}
    /\ config = NoConfig
    /\ log = <<>>
    /\ exitCode = {}
    /\ fs \in SUBSET AllDirs
    /\ created = {}
    /\ torch \in BOOLEAN
    /\ helperOK \in BOOLEAN
    /\ rng = RngInit
    /\ call = NoCall
    /\ seedCalls = 0
    /\ afterCall = [s \in SeedInts |-> {}]
    /\ ckpt_dir = Absent
    /\ logs_dir = Absent
    /\ stepA = "untried"
    /\ stepB = "untried"
    /\ train = "unbound"
    /\ invocations = <<>>
    /\ trainResult = "pending"

Next ==
    \/ main_locate
    \/ load_config
    \/ main_seed
    \/ main_paths
    \/ main_mk_ckpt
    \/ main_mk_logs
    \/ main_resume
    \/ main_resolve_a
    \/ main_resolve_b
    \/ main_dispatch
    \/ train_returns
    \/ train_raises

Spec == Init /\ [][Next]_vars


\* ------------------------------------------- set_seed used as a library
\* a client process that seeds, draws random numbers and seeds again.  The
\* generators start from OS entropy; the convolution flags may have been
\* set by earlier code.
SeedInit ==
    /\ pc = "lib"
    /\ pathKind = "file"
    /\ config = NoConfig
    /\ log = <<>>
    /\ exitCode = {}
    /\ fs = {}
    /\ created = {}
    /\ torch \in BOOLEAN
    /\ helperOK = TRUE
    /\ \E e \in {0, 1}, bench \in BOOLEAN :
          rng = [RngInit EXCEPT !.py = Unseeded(e), !.np = Unseeded(e),
                                !.cudnnBenchmark = bench]
    /\ call = NoCall
    /\ seedCalls = 0
    /\ afterCall = [s \in SeedInts |-> {}]
    /\ ckpt_dir = Absent
    /\ logs_dir = Absent
    /\ stepA = "untried"
    /\ stepB = "untried"
    /\ train = "unbound"
    /\ invocations = <<>>
    /\ trainResult = "pending"

\* train_seed.py lines 20-37, called by a client that survives a raise
lib_set_seed ==
    /\ pc = "lib"
    /\ seedCalls < MaxCalls
    /\ \E s \in SeedInts, fault \in FaultsOf(torch) :
          RecordCall(s, set_seed(rng, s, torch, fault), FALSE)
    /\ UNCHANGED <<pc, pathKind, config, log, exitCode, fs, created, torch,
                   helperOK, ckpt_dir, logs_dir, stepA, stepB, train,
                   invocations, trainResult>>

\* random.random(): the general-purpose generator advances
lib_draw_random ==
    /\ pc = "lib"
    /\ rng.py.pos < MaxDraws
    /\ rng' = [rng EXCEPT !.py.pos = @ + 1]
    /\ call' = [call EXCEPT !.fresh = FALSE]
    /\ UNCHANGED <<pc, pathKind, config, log, exitCode, fs, created, torch,
                   helperOK, seedCalls, afterCall, ckpt_dir, logs_dir, stepA,
                   stepB, train, invocations, trainResult>>

\* np.random.rand(): the numerical-array generator advances
lib_draw_numpy ==
    /\ pc = "lib"
    /\ rng.np.pos < MaxDraws
    /\ rng' = [rng EXCEPT !.np.pos = @ + 1]
    /\ call' = [call EXCEPT !.fresh = FALSE]
    /\ UNCHANGED <<pc, pathKind, config, log, exitCode, fs, created, torch,
                   helperOK, seedCalls, afterCall, ckpt_dir, logs_dir, stepA,
                   stepB, train, invocations, trainResult>>

SeedNext ==
    \/ lib_set_seed
    \/ lib_draw_random
    \/ lib_draw_numpy

SeedSpec == SeedInit /\ [][SeedNext]_vars


\* ------------------------------------------------------------- properties
Last(q) == q[Len(q)]

DispatchReached ==
    \/ pc \in {"dispatch", "training"}
    \/ train # "unbound"

C2_DirsBeforeDispatch ==
    (DispatchReached \/ exitCode = {ExitNoTrain}) =>
        /\ ckpt_dir = Get(config.paths.checkpoints, "checkpoints")
        /\ logs_dir = Get(config.paths.logs, "logs")
        /\ {ckpt_dir, logs_dir} \subseteq fs

C2_Witness ==
    /\ exitCode = {ExitNoTrain}
    /\ created = {"A", "B"}
    /\ ckpt_dir = "A"
    /\ logs_dir = "B"

\* C3: for every integer seed, set_seed never raises and on return both the
\* general-purpose and the numerical-array generator are seeded with it.
C3_NeverRaisesAndSeedsBoth ==
    (call.made /\ call.fresh) =>
        /\ ~call.raised
        /\ rng.py = Seeded(Abs(call.seed))
        /\ rng.np = Seeded(call.seed)

\* C4: set_seed attempts every sub-step whatever happens to the others: after
\* a call, every sub-step that applies has been attempted.
C4_AllSubStepsAttempted ==
    call.made => call.attempted = SubSteps(torch)

\* C5: the generators' states right after set_seed(s) depend on s alone:
\* they equal the states seen after the first call with the same s.
C5_SameSeedSameState ==
    (call.made /\ call.fresh) =>
        <<rng.py, rng.np>> \in afterCall[call.seed]

\* C6: seeding is never fatal: with a seed in the configuration, the seeding
\* step always continues to path resolution with the process running and the
\* configuration and file system untouched, and a failed conversion or a
\* raising set_seed leaves exactly one more log line, a warning.
C6_SeedingNeverFatal ==
    [][(pc = "seed" /\ config.kind = "mapping" /\ config.seed.kind # "none") =>
          /\ pc' = "paths"
          /\ exitCode' = {}
          /\ UNCHANGED <<config, fs, created, ckpt_dir, logs_dir>>
          /\ (config.seed.kind = "text" \/ call'.raised) =>
                log' = Append(log, <<"warning", "Failed to set seed">>)]_vars

C6_Witness ==
    /\ call.made
    /\ call.raised
    /\ pc = "training"
    /\ log[1] = <<"warning", "Failed to set seed">>

\* C7: set_seed is called at most once, only with a seed in the
\* configuration, and at a time when no directory has been created and train
\* has not been invoked; without a seed the seeding step calls nothing, logs
\* nothing and continues to path resolution.
C7_SeedOnceBeforeTheRest ==
    /\ [](seedCalls <= 1)
    /\ [](seedCalls = 1 => config.seed.kind # "none")
    /\ [][seedCalls' # seedCalls =>
             /\ pc = "seed"
             /\ created = {}
             /\ ckpt_dir = Absent
             /\ invocations = <<>>]_vars
    /\ [][(pc = "seed" /\ config.kind = "mapping" /\ config.seed.kind = "none") =>
             /\ pc' = "paths"
             /\ UNCHANGED <<log, exitCode, seedCalls, call, rng>>]_vars

C7_Witness ==
    /\ config.kind = "mapping"
    /\ config.seed.kind = "none"
    /\ pc = "training"
    /\ seedCalls = 0
    /\ log = << <<"info", "Starting training">> >>

\* C8: at dispatch, a name train that is not a callable (nothing found, or
\* bound to something that cannot be called) makes main log the error and
\* exit with code 3 without invoking anything; a callable is invoked exactly
\* once with the parsed configuration.
C8_DispatchOnCallable ==
    (pc \in {"training", "exited"} /\ train # "unbound") =>
        IF train = "callable"
        THEN invocations = <<config>>
        ELSE /\ exitCode = {ExitNoTrain}
             /\ Last(log) = <<"error", "Could not import train">>
             /\ invocations = <<>>

\* C9: a finished process has exit code 2 exactly when the configuration
\* file was not found, 3 exactly when no callable entry point was resolved,
\* and 0 whenever the training routine returned.
C9_ExitCodesDistinguish ==
    pc = "exited" =>
        /\ exitCode = {ExitNotFound} <=> pathKind = "missing"
        /\ exitCode = {ExitNoTrain} <=> train \in {"none", "noncallable"}
        /\ trainResult \in TrainReturns => exitCode = {ExitOK}

\* C10: step (b) of the resolution is attempted only after step (a) failed;
\* the resolution steps never end the process, and when both imports fail
\* the outcome is "not found", which ends the run with exit code 3.
C10_TwoStepResolution ==
    /\ [](stepB # "untried" => stepA = "ImportError")
    /\ []((stepA = "ImportError" /\ stepB = "ImportError") =>
             /\ train = "none"
             /\ invocations = <<>>
             /\ pc = "exited" => exitCode = {ExitNoTrain})
    /\ [][(pc \in {"resolve_a", "resolve_b"}) =>
             /\ pc' \in {"resolve_b", "dispatch"}
             /\ UNCHANGED <<log, exitCode>>]_vars

C10_Witness ==
    /\ stepA = "ImportError"
    /\ stepB = "ImportError"
    /\ exitCode = {ExitNoTrain}

====
